---- MODULE Spec2Model ----
(***************************************************************************)
(* Model of the Python binding of the Luma framework                       *)
(* (Luma/include/bindings/python/luma.py): module import, the Tensor and   *)
(* Model wrappers, the status check and the exit hook.  The native library *)
(* is the environment: every status, handle and error string it returns is *)
(* a nondeterministic input, and the model records each call the binding   *)
(* makes to it.                                                            *)
(***************************************************************************)
EXTENDS Integers, Sequences, FiniteSets, TLC

\* ------------------------------------------------------------------ bounds
MaxTensors == 2
MaxModels == 1

\* --------------------------------------------------------- program constants
LUMA_STATUS_SUCCESS == 0
LUMA_STATUS_ERROR_INVALID_ARGUMENT == 1
LUMA_STATUS_ERROR_RUNTIME == 2
LUMA_STATUS_ERROR_NOT_IMPLEMENTED == 3
LUMA_STATUS_ERROR_MEMORY == 4

StatusCodes ==
  { LUMA_STATUS_SUCCESS, LUMA_STATUS_ERROR_INVALID_ARGUMENT,
    LUMA_STATUS_ERROR_RUNTIME, LUMA_STATUS_ERROR_NOT_IMPLEMENTED,
    LUMA_STATUS_ERROR_MEMORY }

\* ------------------------------------------------------------ Python values
NoneV == [k |-> "none"]
Num(v) == [k |-> "num", v |-> v]
Lst(items) == [k |-> "list", items |-> items]
Str(s) == [k |-> "str", s |-> s]
Dims(d) == [k |-> "dims", dims |-> d]

\* The handle slot of a wrapper: 0 stands for Python's None, a positive
\* number for a c_void_p the library filled in.
NoHandle == 0
\* Status recorded for a function that returns nothing, or was not called.
NoStatus == -1

RECURSIVE Prod(_)
Prod(s) == IF s = <<>> THEN 1 ELSE Head(s) * Prod(Tail(s))

\* numpy: the shape np.array() gives a nested list (a scalar has shape ()).
RECURSIVE NpShape(_)
NpShape(d) ==
  IF d.k = "num" THEN <<>>
  ELSE IF d.items = <<>> THEN <<0>>
  ELSE <<Len(d.items)>> \o NpShape(d.items[1])

\* numpy: np.array(..., dtype=float32) raises ValueError on a ragged list.
RECURSIVE IsRegular(_)
IsRegular(d) ==
  IF d.k = "num" THEN TRUE
  ELSE \A i \in 1..Len(d.items) :
         /\ IsRegular(d.items[i])
         /\ d.items[i].k = d.items[1].k
         /\ NpShape(d.items[i]) = NpShape(d.items[1])

RECURSIVE Flatten(_)
RECURSIVE FlattenAll(_)
Flatten(d) == IF d.k = "num" THEN <<d.v>> ELSE FlattenAll(d.items)
FlattenAll(items) ==
  IF items = <<>> THEN <<>> ELSE Flatten(Head(items)) \o FlattenAll(Tail(items))

\* np.array(data, dtype=np.float32)
NpArray(d) == [k |-> "ndarray", shape |-> NpShape(d), flat |-> Flatten(d)]

\* np.zeros(shape, dtype=np.float32); raises ValueError on a negative dim.
ZerosOk(dims) == \A i \in 1..Len(dims) : dims[i] >= 0
NpZeros(dims) ==
  [k |-> "ndarray", shape |-> dims, flat |-> [i \in 1..Prod(dims) |-> 0]]

\* ------------------------------------------------------------------ inputs
\* The (data, shape) arguments given to Tensor(...)
TensorArgs ==
  { <<NoneV, NoneV>>,
    <<Num(3), NoneV>>,
    <<Lst(<<Num(1), Num(2), Num(3), Num(4)>>), NoneV>>,
    <<Lst(<<Num(1), Num(2), Num(3), Num(4)>>), Dims(<<2, 2>>)>>,
    <<Lst(<<Lst(<<Num(1), Num(2)>>), Lst(<<Num(3)>>)>>), NoneV>>,
    <<NoneV, Dims(<<2, 2>>)>>,
    <<NoneV, Dims(<<>>)>>,
    <<NoneV, Dims(<<-1>>)>> }
\* The (id, path) arguments given to Model(...)
ModelArgs ==
  { <<NoneV, NoneV>>,
    <<Str(""), NoneV>>,
    <<Str("m1"), NoneV>>,
    <<NoneV, Str("m.luma")>>,
    <<Str("m1"), Str("m.luma")>> }

\* What luma_get_last_error returns through restype c_char_p: NULL (None in
\* Python) or a byte string, here a sequence of byte values.
NoError == [null |-> TRUE, bytes |-> <<>>]

\* bytes.decode('utf-8') on the ASCII bytes the inputs use.
Chr(b) == IF b = 101 THEN "e" ELSE IF b = 114 THEN "r" ELSE "?"
RECURSIVE Decode(_)
Decode(bytes) == IF bytes = <<>> THEN "" ELSE Chr(Head(bytes)) \o Decode(Tail(bytes))

\* str(status) inside the f-string of _check_status
IntStr(n) ==
  IF n = 0 THEN "0" ELSE IF n = 1 THEN "1" ELSE IF n = 2 THEN "2"
  ELSE IF n = 3 THEN "3" ELSE IF n = 4 THEN "4" ELSE "n"

\* --------------------------------------------------------------- exceptions
NoExc == [type |-> "none", msg |-> ""]
LumaError(msg) == [type |-> "LumaError", msg |-> msg]
ValueError(msg) == [type |-> "ValueError", msg |-> msg]

\* ------------------------------------------------------------------- state
VARIABLES
  pc,            \* "load", "init", "run", "final": position in the process
  lib,           \* _lib: "CDLL" or "None"
  loaded,        \* whether ctypes.CDLL succeeded at import
  initStatus,    \* what luma_initialize returned (NoStatus: never called)
  initCalls,     \* number of luma_initialize calls
  shutdownCalls, \* number of luma_shutdown calls
  tensors,       \* the Tensor wrapper objects
  models,        \* the Model wrapper objects
  liveT,         \* tensor handles returned by the library and not yet freed
  liveM,         \* model handles returned by the library and not yet freed
  lastOp         \* the last handler that ran: its calls and its outcome

vars == <<pc, lib, loaded, initStatus, initCalls, shutdownCalls, tensors,
          models, liveT, liveM, lastOp>>

TensorIds == 1..MaxTensors
ModelIds == 1..MaxModels

\* The value the library stores in the c_void_p of a wrapper when the call
\* made for it succeeds: one value per object, different from every other.
TensorHandle(t) == t
ModelHandle(m) == MaxTensors + m

\* A Tensor object: st is "unborn" (not constructed yet), "alive", "failed"
\* (__init__ raised, the object awaits destruction) or "dead" (__del__ ran,
\* the object and its attributes are gone).  handle is self._handle and data
\* is self._data (mock mode); origin is the call that produced the handle;
\* cfail records that the create call made for the object returned a
\* non-Success status.
UnbornTensor ==
  [st |-> "unborn", handle |-> NoHandle, data |-> NoneV, origin |-> "none",
   cfail |-> FALSE]
DeadTensor == [UnbornTensor EXCEPT !.st = "dead"]
\* A Model object, likewise; id is self.id (mock mode), origin the call that
\* produced the handle.
UnbornModel ==
  [st |-> "unborn", handle |-> NoHandle, id |-> NoneV, origin |-> "none",
   cfail |-> FALSE]
DeadModel == [UnbornModel EXCEPT !.st = "dead"]

\* ----------------------------------------------------------- library calls
\* One record per call the binding makes into the library: the function, the
\* handles passed, the status returned, and the handles that were live (handed
\* out and not yet freed) when the call was made.
Call(fn, h, status) ==
  [fn |-> fn, h |-> h, status |-> status, ret |-> NoError,
   shape |-> <<>>, rank |-> 0, count |-> 0, liveT |-> liveT, liveM |-> liveM]

\* luma_tensor_create(data, shape_array, rank, byref(handle))
CreateCall(shape, rank, count, status) ==
  [Call("luma_tensor_create", <<>>, status)
     EXCEPT !.shape = shape, !.rank = rank, !.count = count]

\* The status check with the test lost: no status raises.
CheckStatusRaises_Never(status) == FALSE

\* _check_status: the test of line 58
CheckStatusRaises(status) == status # LUMA_STATUS_SUCCESS

\* The message without the fallback for a missing error string.
ErrorMessage_NoFallback(status, err) == Decode(err.bytes)

\* _check_status: the message of the LumaError (lines 59-63)
ErrorMessage(status, err) ==
  IF ~err.null /\ err.bytes # <<>>
  THEN Decode(err.bytes)
  ELSE "Unknown error (code: " \o IntStr(status) \o ")"

\* _check_status: the library calls it makes, and the exception it raises
CheckStatusCalls(status, err) ==
  IF CheckStatusRaises(status)
  THEN << [Call("luma_get_last_error", <<>>, NoStatus) EXCEPT !.ret = err] >>
  ELSE << >>
CheckStatusExc(status, err) ==
  IF CheckStatusRaises(status) THEN LumaError(ErrorMessage(status, err)) ELSE NoExc

\* What a fallible library call is taken to do: the status it returns and
\* the error string luma_get_last_error gives afterwards.
Outcomes ==
  { <<LUMA_STATUS_SUCCESS, NoError>>,
    <<LUMA_STATUS_ERROR_INVALID_ARGUMENT, [null |-> FALSE, bytes |-> <<101, 114, 114>>]>>,
    <<LUMA_STATUS_ERROR_RUNTIME, [null |-> FALSE, bytes |-> <<>>]>>,
    <<LUMA_STATUS_ERROR_MEMORY, [null |-> TRUE, bytes |-> <<>>]>> }

Op(handler, w, args, calls, exc) ==
  [handler |-> handler, mode |-> lib, w |-> w, args |-> args,
   calls |-> calls, exc |-> exc]

Init ==
  /\ pc = "load"
  /\ lib = "None"
  /\ loaded = FALSE
  /\ initStatus = NoStatus
  /\ initCalls = 0
  /\ shutdownCalls = 0
  /\ tensors = [t \in TensorIds |-> UnbornTensor]
  /\ models = [m \in ModelIds |-> UnbornModel]
  /\ liveT = {}
  /\ liveM = {}
  /\ lastOp = [handler |-> "none", mode |-> "None", w |-> 0, args |-> <<>>,
               calls |-> <<>>, exc |-> NoExc]

\* What luma_initialize is taken to do.
InitOutcomes ==
  { <<LUMA_STATUS_SUCCESS, NoError>>,
    <<LUMA_STATUS_ERROR_RUNTIME, [null |-> FALSE, bytes |-> <<101, 114, 114>>]>> }

\* ----------------------------------------------------------- module import
\* Lines 66-72: _lib = _load_luma_library(), or None when it raises.
LoadLibrary ==
  /\ pc = "load"
  /\ \E found \in BOOLEAN :
       /\ loaded' = found
       /\ lib' = IF found THEN "CDLL" ELSE "None"
  /\ pc' = "init"
  /\ UNCHANGED <<initStatus, initCalls, shutdownCalls, tensors, models,
                 liveT, liveM, lastOp>>

\* Import that keeps the library after a failed luma_initialize.
LibAfterInit_Keep(status) == lib

\* Lines 221-226: _lib after the status check of luma_initialize
LibAfterInit(status) == IF CheckStatusRaises(status) THEN "None" ELSE lib

\* Lines 215-226: luma_initialize(), and the fall back to mock mode.
ModuleInit ==
  /\ pc = "init"
  /\ pc' = "run"
  /\ IF lib # "None"
     THEN \E o \in InitOutcomes : LET status == o[1] err == o[2] IN
            /\ initStatus' = status
            /\ initCalls' = initCalls + 1
            /\ lib' = LibAfterInit(status)
            /\ lastOp' = Op("module_init", 0, <<>>,
                            <<Call("luma_initialize", <<>>, status)>>
                              \o CheckStatusCalls(status, err),
                            NoExc)
     ELSE /\ lastOp' = Op("module_init", 0, <<>>, <<>>, NoExc)
          /\ UNCHANGED <<initStatus, initCalls, lib>>
  /\ UNCHANGED <<loaded, shutdownCalls, tensors, models, liveT, liveM>>

\* ------------------------------------------------------------------ Tensor
FreshTensor(t) ==
  /\ tensors[t].st = "unborn"
  /\ \A u \in TensorIds : u < t => tensors[u].st # "unborn"

\* Lines 101-108 and 118-125: the create call, the status check and the
\* assignment of the handle.
TensorCreate(t, args, rec, shape, rank, count) ==
  \E o \in Outcomes : LET status == o[1] err == o[2] IN
    /\ lastOp' = Op("Tensor.__init__", t, args,
                    <<CreateCall(shape, rank, count, status)>>
                      \o CheckStatusCalls(status, err),
                    CheckStatusExc(status, err))
    /\ IF CheckStatusRaises(status)
       THEN /\ tensors' = [tensors EXCEPT ![t] =
                             [rec EXCEPT !.st = "failed", !.cfail = TRUE]]
            /\ UNCHANGED liveT
       ELSE /\ tensors' = [tensors EXCEPT ![t] =
                             [rec EXCEPT !.st = "alive", !.origin = "create",
                                         !.handle = TensorHandle(t)]]
            /\ liveT' = liveT \cup {TensorHandle(t)}

\* Tensor.__init__ (lines 77-125)
TensorInit(t, data, shape) ==
  /\ pc = "run"
  /\ FreshTensor(t)
  /\ LET args == <<data, shape>>
         rec == UnbornTensor
         raise(exc) ==
           /\ tensors' = [tensors EXCEPT ![t] = [rec EXCEPT !.st = "failed"]]
           /\ lastOp' = Op("Tensor.__init__", t, args, <<>>, exc)
           /\ UNCHANGED liveT
     IN
     IF lib = "None"
     THEN IF data # NoneV /\ ~IsRegular(data)
          THEN raise(ValueError("inhomogeneous shape"))
          ELSE /\ tensors' = [tensors EXCEPT ![t] =
                    [rec EXCEPT !.st = "alive",
                                !.data = NpArray(IF data # NoneV THEN data
                                                 ELSE Lst(<<>>))]]
               /\ lastOp' = Op("Tensor.__init__", t, args, <<>>, NoExc)
               /\ UNCHANGED liveT
     ELSE IF data # NoneV
     THEN IF ~IsRegular(data)
          THEN raise(ValueError("inhomogeneous shape"))
          ELSE TensorCreate(t, args, rec, NpArray(data).shape,
                            Len(NpArray(data).shape), Len(NpArray(data).flat))
     ELSE IF shape # NoneV
     THEN IF ~ZerosOk(shape.dims)
          THEN raise(ValueError("negative dimensions are not allowed"))
          ELSE TensorCreate(t, args, rec, shape.dims, Len(shape.dims),
                            Len(NpZeros(shape.dims).flat))
     ELSE /\ tensors' = [tensors EXCEPT ![t] = [rec EXCEPT !.st = "alive"]]
          /\ lastOp' = Op("Tensor.__init__", t, args, <<>>, NoExc)
          /\ UNCHANGED liveT
  /\ UNCHANGED <<pc, lib, loaded, initStatus, initCalls, shutdownCalls,
                 models, liveM>>

\* Tensor.__del__: the guard of line 129
TensorDelFrees(t) == lib # "None" /\ tensors[t].handle # NoHandle

\* Tensor.__del__ (lines 127-130), recorded with the object it destroys
\* (self); it runs when the object is released while
\* the program runs, or when the interpreter finalizes after the exit hooks.
TensorDel(t) ==
  /\ pc \in {"run", "final"}
  /\ tensors[t].st \in {"alive", "failed"}
  /\ IF TensorDelFrees(t)
     THEN /\ lastOp' = Op("Tensor.__del__", t, <<tensors[t]>>,
                          <<Call("luma_tensor_free", <<tensors[t].handle>>,
                                 NoStatus)>>, NoExc)
          /\ liveT' = liveT \ {tensors[t].handle}
          /\ tensors' = [tensors EXCEPT ![t] = DeadTensor]
     ELSE /\ lastOp' = Op("Tensor.__del__", t, <<tensors[t]>>, <<>>, NoExc)
          /\ tensors' = [tensors EXCEPT ![t] = DeadTensor]
          /\ UNCHANGED liveT
  /\ UNCHANGED <<pc, lib, loaded, initStatus, initCalls, shutdownCalls,
                 models, liveM>>

\* Tensor.shape (lines 132-137): the placeholder, in both modes
TensorShape(t) == IF lib = "None" THEN <<1, 1>> ELSE <<1, 1>>

\* Tensor.size (lines 139-142): np.prod(self.shape)
TensorSize(t) == Prod(TensorShape(t))

\* ------------------------------------------------------------------- Model
FreshModel(m) ==
  /\ models[m].st = "unborn"
  /\ \A u \in ModelIds : u < m => models[u].st # "unborn"

\* Lines 158-175: the load or create call, the status check and the
\* assignment of the handle.
ModelCreate(m, args, fn, origin) ==
  \E o \in Outcomes : LET status == o[1] err == o[2] IN
    /\ lastOp' = Op("Model.__init__", m, args,
                    <<Call(fn, <<>>, status)>> \o CheckStatusCalls(status, err),
                    CheckStatusExc(status, err))
    /\ IF CheckStatusRaises(status)
       THEN /\ models' = [models EXCEPT ![m] =
                   [UnbornModel EXCEPT !.st = "failed", !.cfail = TRUE]]
            /\ UNCHANGED liveM
       ELSE /\ models' = [models EXCEPT ![m] =
                   [UnbornModel EXCEPT !.st = "alive", !.origin = origin,
                                       !.handle = ModelHandle(m)]]
            /\ liveM' = liveM \cup {ModelHandle(m)}

\* Line 153: self.id = id or "mock_model"
MockId(id) == IF id # NoneV /\ id.s # "" THEN id ELSE Str("mock_model")

\* A constructor that creates an anonymous model when given no argument.
ModelBranch_Default(id, path) == IF path # NoneV THEN "load" ELSE "create"

\* Lines 158-173: which way a native Model is made
ModelBranch(id, path) ==
  IF path # NoneV THEN "load" ELSE IF id # NoneV THEN "create" ELSE "error"

\* Model.__init__ (lines 147-175)
ModelInit(m, id, path) ==
  /\ pc = "run"
  /\ FreshModel(m)
  /\ LET args == <<id, path>> IN
     IF lib = "None"
     THEN /\ models' = [models EXCEPT ![m] =
                 [UnbornModel EXCEPT !.st = "alive", !.id = MockId(id),
                                     !.origin = "mock"]]
          /\ lastOp' = Op("Model.__init__", m, args, <<>>, NoExc)
          /\ UNCHANGED liveM
     ELSE IF ModelBranch(id, path) = "load"
     THEN ModelCreate(m, args, "luma_model_load", "load")
     ELSE IF ModelBranch(id, path) = "create"
     THEN ModelCreate(m, args, "luma_model_create", "create")
     ELSE /\ models' = [models EXCEPT ![m] =
                 [UnbornModel EXCEPT !.st = "failed"]]
          /\ lastOp' = Op("Model.__init__", m, args, <<>>,
                          ValueError("Either id or path must be provided"))
          /\ UNCHANGED liveM
  /\ UNCHANGED <<pc, lib, loaded, initStatus, initCalls, shutdownCalls,
                 tensors, liveT>>

\* Model.__del__: the guard of line 179
ModelDelFrees(m) == lib # "None" /\ models[m].handle # NoHandle

\* A destructor that also releases every live tensor.
ModelDelTensorsFreed_Cascade(m) == liveT

\* Model.__del__: the handles it frees (line 180)
ModelDelTensorsFreed(m) == {}

\* Model.__del__ (lines 177-180)
ModelDel(m) ==
  /\ pc \in {"run", "final"}
  /\ models[m].st \in {"alive", "failed"}
  /\ IF ModelDelFrees(m)
     THEN /\ lastOp' = Op("Model.__del__", m, <<models[m]>>,
                          <<Call("luma_model_free", <<models[m].handle>>,
                                 NoStatus)>>, NoExc)
          /\ liveM' = liveM \ {models[m].handle}
          /\ models' = [models EXCEPT ![m] = DeadModel]
     ELSE /\ lastOp' = Op("Model.__del__", m, <<models[m]>>, <<>>, NoExc)
          /\ models' = [models EXCEPT ![m] = DeadModel]
          /\ UNCHANGED liveM
  /\ liveT' = liveT \ ModelDelTensorsFreed(m)
  /\ tensors' = [t \in TensorIds |->
                   IF tensors[t].handle \in ModelDelTensorsFreed(m)
                   THEN [tensors[t] EXCEPT !.handle = NoHandle]
                   ELSE tensors[t]]
  /\ UNCHANGED <<pc, lib, loaded, initStatus, initCalls, shutdownCalls>>

\* Model.save (lines 182-189) and Model.export (lines 206-213): one call on
\* the model's handle, then the status check.
ModelCallOn(m, handler, fn) ==
  /\ pc = "run"
  /\ models[m].st = "alive"
  /\ IF lib = "None"
     THEN lastOp' = Op(handler, m, <<>>, <<>>, NoExc)
     ELSE \E o \in Outcomes : LET status == o[1] err == o[2] IN
            lastOp' = Op(handler, m, <<>>,
                         <<Call(fn, <<models[m].handle>>, status)>>
                           \o CheckStatusCalls(status, err),
                         CheckStatusExc(status, err))
  /\ UNCHANGED <<pc, lib, loaded, initStatus, initCalls, shutdownCalls,
                 tensors, models, liveT, liveM>>

ModelSave(m) == ModelCallOn(m, "Model.save", "luma_model_save")

ModelExport(m) == ModelCallOn(m, "Model.export", "luma_model_export")

\* Model.predict (lines 191-204)
ModelPredict(m, t) ==
  /\ pc = "run"
  /\ models[m].st = "alive"
  /\ tensors[t].st = "alive"
  /\ IF lib = "None"
     THEN \E out \in TensorIds :
            /\ FreshTensor(out)
            /\ tensors' = [tensors EXCEPT ![out] =
                   [UnbornTensor EXCEPT !.st = "alive",
                                        !.data = NpZeros(<<1, 10>>)]]
            /\ lastOp' = Op("Model.predict", m, <<t, out>>, <<>>, NoExc)
            /\ UNCHANGED liveT
     ELSE \E o \in Outcomes : LET status == o[1] err == o[2] IN
            LET calls == <<Call("luma_model_predict",
                                <<models[m].handle, tensors[t].handle>>,
                                status)>> \o CheckStatusCalls(status, err)
            IN
            IF CheckStatusRaises(status)
            THEN /\ lastOp' = Op("Model.predict", m, <<t, 0>>, calls,
                                 CheckStatusExc(status, err))
                 /\ UNCHANGED <<tensors, liveT>>
            ELSE \E out \in TensorIds :
                   /\ FreshTensor(out)
                   /\ tensors' = [tensors EXCEPT ![out] =
                          [UnbornTensor EXCEPT !.st = "alive",
                                               !.origin = "predict",
                                               !.handle =
                                                  TensorHandle(out)]]
                   /\ liveT' = liveT \cup {TensorHandle(out)}
                   /\ lastOp' = Op("Model.predict", m, <<t, out>>, calls,
                                   NoExc)
  /\ UNCHANGED <<pc, lib, loaded, initStatus, initCalls, shutdownCalls,
                 models, liveM>>

\* ---------------------------------------------------------------- exit hook
\* An exit hook that looks at whether the library was loaded.
ShutdownCallsLibrary_Loaded == loaded

\* _shutdown_luma: the guard of line 233
ShutdownCallsLibrary == lib # "None"

\* _shutdown_luma (lines 231-234), run by atexit before the interpreter
\* finalizes the objects that are still alive.
ShutdownLuma ==
  /\ pc = "run"
  /\ pc' = "final"
  /\ IF ShutdownCallsLibrary
     THEN /\ lastOp' = Op("_shutdown_luma", 0, <<>>,
                          <<Call("luma_shutdown", <<>>, NoStatus)>>, NoExc)
          /\ shutdownCalls' = shutdownCalls + 1
     ELSE /\ lastOp' = Op("_shutdown_luma", 0, <<>>, <<>>, NoExc)
          /\ UNCHANGED shutdownCalls
  /\ UNCHANGED <<lib, loaded, initStatus, initCalls, tensors, models,
                 liveT, liveM>>

\* ----------------------------------------------------------- specification
Next ==
  \/ LoadLibrary
  \/ ModuleInit
  \/ \E t \in TensorIds : \E a \in TensorArgs : TensorInit(t, a[1], a[2])
  \/ \E t \in TensorIds : TensorDel(t)
  \/ \E m \in ModelIds : \E a \in ModelArgs : ModelInit(m, a[1], a[2])
  \/ \E m \in ModelIds : ModelDel(m)
  \/ \E m \in ModelIds : ModelSave(m)
  \/ \E m \in ModelIds : ModelExport(m)
  \/ \E m \in ModelIds : \E t \in TensorIds : ModelPredict(m, t)
  \/ ShutdownLuma

Spec == Init /\ [][Next]_vars

\* ------------------------------------------------------------------ claims

\* C1 as stated: luma_initialize is called exactly once per process, and
\* every tensor or model call of the library happens after it returned
\* Success.
C1_InitExactlyOnce ==
  /\ pc \in {"run", "final"} => initCalls = 1
  /\ \A i \in 1..Len(lastOp.calls) :
       lastOp.calls[i].fn \in
         {"luma_tensor_create", "luma_tensor_free", "luma_model_create",
          "luma_model_load", "luma_model_save", "luma_model_export",
          "luma_model_predict", "luma_model_free"}
       => initCalls = 1 /\ initStatus = LUMA_STATUS_SUCCESS

\* C1 amended: luma_initialize is called at most once per process: exactly
\* once when the library was loaded, never when it was not; and every tensor
\* or model call of the library happens after it returned Success.
C1_InitOnceBeforeUse ==
  /\ initCalls <= 1
  /\ pc \in {"run", "final"} => (initCalls = 1 <=> loaded)
  /\ \A i \in 1..Len(lastOp.calls) :
       lastOp.calls[i].fn \in
         {"luma_tensor_create", "luma_tensor_free", "luma_model_create",
          "luma_model_load", "luma_model_save", "luma_model_export",
          "luma_model_predict", "luma_model_free"}
       => initCalls = 1 /\ initStatus = LUMA_STATUS_SUCCESS

C1_Witness ==
  /\ initCalls = 1
  /\ lastOp.handler = "Model.predict"
  /\ lastOp.calls # <<>>
  /\ lastOp.calls[1].fn = "luma_model_predict"

\* C2: once the exit hook has called luma_shutdown, no handler of the
\* binding calls the library again; no destructor frees a handle afterwards.
C2_NoCallAfterShutdown ==
  (shutdownCalls > 0 /\ lastOp.handler # "_shutdown_luma")
    => lastOp.calls = <<>>

\* C3: every handle passed to save, export, predict, luma_tensor_free or
\* luma_model_free was returned by an earlier successful call and is not
\* freed yet.
C3_HandlesLive ==
  \A i \in 1..Len(lastOp.calls) :
    LET c == lastOp.calls[i] IN
    /\ c.fn \in {"luma_model_save", "luma_model_export", "luma_model_free"}
         => c.h[1] \in c.liveM
    /\ c.fn = "luma_model_predict"
         => c.h[1] \in c.liveM /\ c.h[2] \in c.liveT
    /\ c.fn = "luma_tensor_free" => c.h[1] \in c.liveT

\* C4: when the create or load call of a constructor returns a non-Success
\* status the constructor raises and the object keeps no handle; all that
\* happens to the object afterwards is its destruction, which calls nothing.
C4_FailedCreateLeavesNoHandle ==
  /\ [](\A t \in TensorIds :
          tensors[t].cfail =>
            tensors[t].st = "failed" /\ tensors[t].handle = NoHandle)
  /\ [](\A m \in ModelIds :
          models[m].cfail =>
            models[m].st = "failed" /\ models[m].handle = NoHandle)
  /\ []( ( /\ lastOp.handler \in {"Tensor.__init__", "Model.__init__"}
           /\ lastOp.calls # <<>>
           /\ lastOp.calls[1].status # LUMA_STATUS_SUCCESS )
         => /\ lastOp.exc.type = "LumaError"
            /\ IF lastOp.handler = "Tensor.__init__"
               THEN tensors[lastOp.w].cfail
               ELSE models[lastOp.w].cfail )
  /\ [][ /\ \A t \in TensorIds :
             (tensors[t].cfail /\ tensors'[t] # tensors[t])
             => /\ tensors'[t].st = "dead"
                /\ lastOp'.handler = "Tensor.__del__"
                /\ lastOp'.calls = <<>>
         /\ \A m \in ModelIds :
             (models[m].cfail /\ models'[m] # models[m])
             => /\ models'[m].st = "dead"
                /\ lastOp'.handler = "Model.__del__"
                /\ lastOp'.calls = <<>> ]_vars

C4_Witness ==
  /\ lastOp.handler = "Model.__del__"
  /\ lastOp.args[1].cfail
  /\ lastOp.calls = <<>>
  /\ \E t \in TensorIds : tensors[t].cfail /\ tensors[t].st = "failed"

C6_ShapeAndSize ==
  ( /\ lastOp.handler = "Tensor.__init__"
    /\ lastOp.exc.type = "none"
    /\ lastOp.args[1].k = "list"
    /\ lastOp.args[2] # NoneV =>
         Prod(lastOp.args[2].dims) = Len(Flatten(lastOp.args[1])) )
  => LET data == lastOp.args[1]
         shape == lastOp.args[2]
     IN
     /\ TensorShape(lastOp.w) =
          (IF shape # NoneV THEN shape.dims ELSE NpShape(data))
     /\ TensorSize(lastOp.w) = Len(Flatten(data))

\* C7: every luma_tensor_create call passes a non-empty shape, a rank equal
\* to its length, and a buffer of as many elements as the product of the
\* dimensions.
C7_CreateArgs ==
  \A i \in 1..Len(lastOp.calls) :
    LET c == lastOp.calls[i] IN
    c.fn = "luma_tensor_create"
      => /\ c.shape # <<>>
         /\ c.rank = Len(c.shape)
         /\ c.count = Prod(c.shape)

\* C8: destroying a Model makes at most one library call, luma_model_free on
\* that model's handle, and leaves every Tensor object and every live tensor
\* handle as it was; a tensor handle is freed only by the destructor of the
\* Tensor that holds it.
C8_ModelDelFrame ==
  /\ [][ \A m \in ModelIds :
           (models[m].st # "dead" /\ models'[m].st = "dead")
           => /\ tensors' = tensors
              /\ liveT' = liveT
              /\ liveM' = liveM \ {models[m].handle}
              /\ \A i \in 1..Len(lastOp'.calls) :
                   /\ lastOp'.calls[i].fn = "luma_model_free"
                   /\ lastOp'.calls[i].h = <<models[m].handle>> ]_vars
  /\ [][ \A i \in 1..Len(lastOp'.calls) :
           lastOp'.calls[i].fn = "luma_tensor_free"
           => /\ lastOp'.handler = "Tensor.__del__"
              /\ tensors[lastOp'.w].st = "alive"
              /\ tensors'[lastOp'.w].st = "dead"
              /\ lastOp'.calls[i].h = <<tensors[lastOp'.w].handle>> ]_vars

C8_Witness ==
  /\ lastOp.handler = "Model.__del__"
  /\ lastOp.calls # <<>>
  /\ \E t \in TensorIds :
       /\ tensors[t].st = "alive"
       /\ tensors[t].origin = "predict"
       /\ tensors[t].handle \in liveT

\* C9 as stated: constructing a Model with neither id nor path raises
\* ValueError, calls nothing and produces no model; a Model exists only as
\* the result of create(id) or load(path).
C9_NoArgModelFails ==
  /\ (lastOp.handler = "Model.__init__" /\ lastOp.args = <<NoneV, NoneV>>)
     => /\ lastOp.exc = ValueError("Either id or path must be provided")
        /\ lastOp.calls = <<>>
        /\ models[lastOp.w].st # "alive"
  /\ \A m \in ModelIds :
       models[m].st = "alive" => models[m].origin \in {"create", "load"}

\* C9 amended: in native mode, constructing a Model with neither id nor path
\* raises ValueError, calls nothing and produces no model, and a Model exists
\* only as the result of a successful create(id) or load(path).
C9_NoArgModelFailsNative ==
  lib # "None" =>
    /\ (lastOp.handler = "Model.__init__" /\ lastOp.args = <<NoneV, NoneV>>)
       => /\ lastOp.exc = ValueError("Either id or path must be provided")
          /\ lastOp.calls = <<>>
          /\ models[lastOp.w].st # "alive"
    /\ \A m \in ModelIds :
         models[m].st = "alive"
         => /\ models[m].origin \in {"create", "load"}
            /\ models[m].handle \in liveM

C9_Witness ==
  /\ lib # "None"
  /\ lastOp.handler = "Model.__init__"
  /\ lastOp.args = <<NoneV, NoneV>>
  /\ lastOp.exc.type = "ValueError"
  /\ models[lastOp.w].st = "failed"

\* C10: the mode is fixed when import ends; the module is in mock mode
\* exactly when the library could not be loaded or luma_initialize failed;
\* in mock mode no operation, destructor or exit hook calls the library; and
\* luma_shutdown is called at exit exactly when luma_initialize succeeded.
C10_ModeFixedAndMockSilent ==
  /\ [][(pc \in {"run", "final"}) => (lib' = lib)]_vars
  /\ [](pc \in {"run", "final"} =>
          (lib = "None" <=> (~loaded \/ initStatus # LUMA_STATUS_SUCCESS)))
  /\ []((lib = "None" /\ lastOp.handler \notin {"none", "module_init"})
          => lastOp.calls = <<>>)
  /\ [](pc = "final" =>
          (shutdownCalls = 1 <=> initStatus = LUMA_STATUS_SUCCESS))
  /\ [](pc # "final" => shutdownCalls = 0)

C10_Witness ==
  /\ pc = "final"
  /\ loaded
  /\ lib = "None"
  /\ lastOp.handler = "Model.__del__"
  /\ \E t \in TensorIds : tensors[t].st = "dead"

====
